---- MODULE Spec2Model ----
(***************************************************************************)
(* Model of archiveOrganization.js: the one-shot script that copies the    *)
(* documents of one organization from the live collection to the archive   *)
(* collection in batches and deletes the originals.                        *)
(*                                                                         *)
(* A run is one invocation, either of main (preflight probe, then the      *)
(* archival with batchSize 500) or of archiveContactsDocuments itself with *)
(* a batchSize of the caller's choice.  Each await of the code is a        *)
(* position of the run (pc); the backend answers an awaited query or       *)
(* commit either with success or with an error.  Runs are invoked one      *)
(* after the other in Spec; SpecEnv has one run and one write by another   *)
(* client of the live collection.                                          *)
(***************************************************************************)
EXTENDS Integers, Sequences, FiniteSets, TLC

VARIABLES live, archive, config, run, otherActed

vars == <<live, archive, config, run, otherActed>>

\* ----------------------------------------------------------------- bounds
NumIds == 5
MaxBatch == 3

\* -------------------------------------------------------------- constants
DefaultBatchSize == 500
MainBatchSize == 500

Ids == 1..NumIds
Runs == {1, 2}
ORGANIZATION_ID == "org"
OtherOrganization == "other"
BatchSizes == (1..MaxBatch) \cup {DefaultBatchSize}

\* A document's field map: organization_id and the rest of its fields (rev).
FieldMap(org, rev) == [organization_id |-> org, rev |-> rev]

\* ---------------------------------------------------------------- helpers
Last(s) == s[Len(s)]

RECURSIVE QueryFrom(_, _, _)
QueryFrom(col, org, i) ==
  IF i > NumIds THEN <<>>
  ELSE (IF i \in DOMAIN col /\ col[i].organization_id = org
          THEN <<[id |-> i, data |-> col[i]]>>
          ELSE <<>>) \o QueryFrom(col, org, i + 1)

MutQueryAll(col, org) ==
  LET nth(k) == CHOOSE i \in DOMAIN col : Cardinality({j \in DOMAIN col : j < i}) = k - 1
  IN  [k \in 1..Cardinality(DOMAIN col) |-> [id |-> nth(k), data |-> col[nth(k)]]]

\* where('organization_id', '==', organizationId).get(): the matching documents,
\* in the backend's default order (ascending document id).
Query(col, org) == QueryFrom(col, org, 1)

\* querySnapshot.empty
Empty(snap) == Len(snap) = 0

MutApplySetsKeepsExisting(col, ops) ==
  [i \in DOMAIN col \cup {ops[k].id : k \in DOMAIN ops} |->
     IF i \in DOMAIN col
       THEN col[i]
       ELSE ops[CHOOSE k \in DOMAIN ops : ops[k].id = i].data]

RECURSIVE ApplySets(_, _)
\* WriteBatch.commit() of staged set(ref, data) operations: each replaces the
\* whole document at its id, in staging order.
ApplySets(col, ops) ==
  IF ops = <<>> THEN col
  ELSE ApplySets([i \in DOMAIN col \cup {Head(ops).id} |->
                    IF i = Head(ops).id THEN Head(ops).data ELSE col[i]],
                 Tail(ops))

MutApplyDeletesNone(col, ids) == col

\* WriteBatch.commit() of staged delete(ref) operations; deleting a missing
\* document is a no-op.
ApplyDeletes(col, ids) ==
  [i \in DOMAIN col \ {ids[k] : k \in DOMAIN ids} |-> col[i]]

MutBatchFullLate(operations, batchSize) == operations = batchSize + 1

\* operations === batchSize
BatchFull(operations, batchSize) == operations = batchSize

MutRemainingNever(operations) == FALSE

\* operations > 0
Remaining(operations) == operations > 0

MutStagingAlways(isDryRun) == TRUE

\* if (!isDryRun): stage (and commit) for real
Staging(isDryRun) == ~isDryRun

Logged(rec, entry) == [rec EXCEPT !.log = Append(@, entry)]

MutCaughtRethrows(rec) ==
  [Logged(rec, [msg |-> "error", n |-> 0]) EXCEPT !.pc = "done", !.exit = "unhandled"]

\* catch (error) { logger.error(...) } of archiveContactsDocuments: the function
\* returns normally and so does main.
Caught(rec) ==
  [Logged(rec, [msg |-> "error", n |-> 0]) EXCEPT !.pc = "done", !.exit = "returned"]

MutResetKeepsBatches(rec) == [rec EXCEPT !.operations = 0]

\* batch = mainFirestore.batch(); archiveBatch = archiveFirestore.batch(); operations = 0
ResetBatches(rec) ==
  [rec EXCEPT !.batch = <<>>, !.archiveBatch = <<>>, !.operations = 0]

\* logger.info('Archival process completed successfully.') and the return
Completed(rec) ==
  [Logged(rec, [msg |-> "completed", n |-> 0]) EXCEPT !.pc = "done", !.exit = "returned"]

\* The call of archiveContactsDocuments up to its first await (the full fetch).
CallArchive(rec) ==
  [Logged(rec, [msg |-> "starting", n |-> 0]) EXCEPT !.pc = "query", !.fullFetch = "issued"]

MutAfterProbeIgnores(rec, has) ==
  CallArchive([rec EXCEPT !.hasDocuments = IF has THEN "true" ELSE "false"])

\* main after testFetchDocuments returned `has`.
AfterProbe(rec, has) ==
  IF ~has
    THEN [Logged([rec EXCEPT !.hasDocuments = "false"], [msg |-> "exiting", n |-> 0])
            EXCEPT !.pc = "done", !.exit = "returned"]
    ELSE CallArchive([rec EXCEPT !.hasDocuments = "true"])

IdleRun ==
  [pc |-> "idle", isDryRun |-> FALSE, hasDocuments |-> "unset", fullFetch |-> "none",
   querySnapshot |-> <<>>, idx |-> 1, batch |-> <<>>, archiveBatch |-> <<>>,
   operations |-> 0, log |-> <<>>, commits |-> <<>>, exit |-> "none",
   liveUntouched |-> <<>>, archiveUntouched |-> <<>>, inFlight |-> <<>>,
   otherWrite |-> [kind |-> "none", id |-> 0, fetched |-> FALSE]]

\* ------------------------------------------------------------------- Init
Init ==
  /\ live \in [Ids -> {FieldMap(ORGANIZATION_ID, 1), FieldMap(OtherOrganization, 1)}]
  /\ archive \in {<<>>, [i \in Ids |-> FieldMap(live[i].organization_id, 0)]}
  /\ config \in {[entry |-> "main", batchSize |-> MainBatchSize]}
         \cup {[entry |-> "archive", batchSize |-> b] : b \in BatchSizes}
  /\ run = [r \in Runs |-> IdleRun]
  /\ otherActed = FALSE

\* ---------------------------------------------------------------- actions
Invocable(r) ==
  /\ run[r].pc = "idle"
  /\ \A q \in Runs : q < r => run[q].pc = "done"

Started(r, isDryRun) ==
  [run[r] EXCEPT !.isDryRun = isDryRun, !.liveUntouched = live,
                 !.archiveUntouched = archive]

\* main(): verifyProjects, then testFetchDocuments up to its query.
Main(r) ==
  /\ Invocable(r)
  /\ config.entry = "main"
  /\ \E isDryRun \in BOOLEAN :
       run' = [run EXCEPT ![r] =
                 [Logged(Started(r, isDryRun), [msg |-> "testing", n |-> 0])
                    EXCEPT !.pc = "probe"]]
  /\ UNCHANGED <<live, archive, config, otherActed>>

\* archiveContactsDocuments({..., batchSize, isDryRun}) called by itself.
Archive(r) ==
  /\ Invocable(r)
  /\ config.entry = "archive"
  /\ \E isDryRun \in BOOLEAN :
       run' = [run EXCEPT ![r] = CallArchive(Started(r, isDryRun))]
  /\ UNCHANGED <<live, archive, config, otherActed>>

TestFetchFound(r) ==
  /\ run[r].pc = "probe"
  /\ ~Empty(Query(live, ORGANIZATION_ID))
  /\ run' = [run EXCEPT ![r] =
               AfterProbe(Logged(run[r], [msg |-> "found for testing",
                                          n |-> Len(Query(live, ORGANIZATION_ID))]),
                          TRUE)]
  /\ UNCHANGED <<live, archive, config, otherActed>>

TestFetchEmpty(r) ==
  /\ run[r].pc = "probe"
  /\ Empty(Query(live, ORGANIZATION_ID))
  /\ run' = [run EXCEPT ![r] =
               AfterProbe(Logged(run[r], [msg |-> "none for testing", n |-> 0]), FALSE)]
  /\ UNCHANGED <<live, archive, config, otherActed>>

TestFetchError(r) ==
  /\ run[r].pc = "probe"
  /\ run' = [run EXCEPT ![r] =
               AfterProbe(Logged(run[r], [msg |-> "test fetch error", n |-> 0]), FALSE)]
  /\ UNCHANGED <<live, archive, config, otherActed>>

QueryFound(r) ==
  /\ run[r].pc = "query"
  /\ ~Empty(Query(live, ORGANIZATION_ID))
  /\ run' = [run EXCEPT ![r] =
               [Logged(ResetBatches(run[r]),
                       [msg |-> "found", n |-> Len(Query(live, ORGANIZATION_ID))])
                  EXCEPT !.querySnapshot = Query(live, ORGANIZATION_ID),
                         !.fullFetch = "ok", !.idx = 1, !.pc = "loop"]]
  /\ UNCHANGED <<live, archive, config, otherActed>>

MutQueryEmptyFallsThrough(r) ==
  /\ run[r].pc = "query"
  /\ Empty(Query(live, ORGANIZATION_ID))
  /\ run' = [run EXCEPT ![r] =
               [run[r] EXCEPT !.querySnapshot = <<>>, !.fullFetch = "ok",
                              !.idx = 1, !.pc = "loop"]]
  /\ UNCHANGED <<live, archive, config, otherActed>>

QueryEmpty(r) ==
  /\ run[r].pc = "query"
  /\ Empty(Query(live, ORGANIZATION_ID))
  /\ run' = [run EXCEPT ![r] =
               [Logged(run[r], [msg |-> "no match", n |-> 0])
                  EXCEPT !.querySnapshot = <<>>, !.fullFetch = "ok",
                         !.pc = "done", !.exit = "returned"]]
  /\ UNCHANGED <<live, archive, config, otherActed>>

QueryError(r) ==
  /\ run[r].pc = "query"
  /\ run' = [run EXCEPT ![r] = Caught([run[r] EXCEPT !.fullFetch = "error"])]
  /\ UNCHANGED <<live, archive, config, otherActed>>

\* archiveBatch.commit() / batch.commit() is called and awaited at position pc:
\* the commit is in flight, with the operations staged so far, until it settles.
Awaiting(rec, pc) ==
  [rec EXCEPT !.pc = pc,
              !.inFlight = Append(@, [sink |-> IF pc \in {"archiveCommit", "lastArchiveCommit"}
                                                 THEN "archive" ELSE "live",
                                      ops |-> rec.batch])]

MutStagedRereadsOrBlank(rec, batchSize) ==
  LET snap == rec.querySnapshot[rec.idx]
      doc == [snap EXCEPT !.data = IF snap.id \in DOMAIN live
                                     THEN live[snap.id] ELSE FieldMap("", 0)]
      one == IF Staging(rec.isDryRun)
               THEN [rec EXCEPT !.archiveBatch = Append(@, doc),
                                !.batch = Append(@, doc.id)]
               ELSE Logged(rec, [msg |-> "would archive and delete", n |-> doc.id])
      cnt == [one EXCEPT !.operations = @ + 1, !.idx = @ + 1]
  IN  IF BatchFull(cnt.operations, batchSize)
        THEN IF Staging(rec.isDryRun)
               THEN Awaiting(cnt, "archiveCommit")
               ELSE ResetBatches(Logged(cnt, [msg |-> "batch", n |-> cnt.operations]))
        ELSE cnt

MutStagedRereads(rec, batchSize) ==
  LET snap == rec.querySnapshot[rec.idx]
      doc == [snap EXCEPT !.data = IF snap.id \in DOMAIN live THEN live[snap.id] ELSE @]
      one == IF Staging(rec.isDryRun)
               THEN [rec EXCEPT !.archiveBatch = Append(@, doc),
                                !.batch = Append(@, doc.id)]
               ELSE Logged(rec, [msg |-> "would archive and delete", n |-> doc.id])
      cnt == [one EXCEPT !.operations = @ + 1, !.idx = @ + 1]
  IN  IF BatchFull(cnt.operations, batchSize)
        THEN IF Staging(rec.isDryRun)
               THEN Awaiting(cnt, "archiveCommit")
               ELSE ResetBatches(Logged(cnt, [msg |-> "batch", n |-> cnt.operations]))
        ELSE cnt

MutStagedNoAwait(rec, batchSize) ==
  LET doc == rec.querySnapshot[rec.idx]
      one == IF Staging(rec.isDryRun)
               THEN [rec EXCEPT !.archiveBatch = Append(@, doc),
                                !.batch = Append(@, doc.id)]
               ELSE Logged(rec, [msg |-> "would archive and delete", n |-> doc.id])
      cnt == [one EXCEPT !.operations = @ + 1, !.idx = @ + 1]
  IN  IF BatchFull(cnt.operations, batchSize)
        THEN IF Staging(rec.isDryRun)
               THEN ResetBatches(Awaiting(Awaiting(cnt, "archiveCommit"), "loop"))
               ELSE ResetBatches(Logged(cnt, [msg |-> "batch", n |-> cnt.operations]))
        ELSE cnt

MutStagedDryKeepsCounting(rec, batchSize) ==
  LET doc == rec.querySnapshot[rec.idx]
      one == IF Staging(rec.isDryRun)
               THEN [rec EXCEPT !.archiveBatch = Append(@, doc),
                                !.batch = Append(@, doc.id)]
               ELSE Logged(rec, [msg |-> "would archive and delete", n |-> doc.id])
      cnt == [one EXCEPT !.operations = @ + 1, !.idx = @ + 1]
  IN  IF BatchFull(cnt.operations, batchSize)
        THEN IF Staging(rec.isDryRun)
               THEN Awaiting(cnt, "archiveCommit")
               ELSE Logged(cnt, [msg |-> "batch", n |-> cnt.operations])
        ELSE cnt

\* The body of the for loop for one document, up to the next iteration or await.
Staged(rec, batchSize) ==
  LET doc == rec.querySnapshot[rec.idx]
      one == IF Staging(rec.isDryRun)
               THEN [rec EXCEPT !.archiveBatch = Append(@, doc),
                                !.batch = Append(@, doc.id)]
               ELSE Logged(rec, [msg |-> "would archive and delete", n |-> doc.id])
      cnt == [one EXCEPT !.operations = @ + 1, !.idx = @ + 1]
  IN  IF BatchFull(cnt.operations, batchSize)
        THEN IF Staging(rec.isDryRun)
               THEN Awaiting(cnt, "archiveCommit")
               ELSE ResetBatches(Logged(cnt, [msg |-> "batch", n |-> cnt.operations]))
        ELSE cnt

StageDoc(r) ==
  /\ run[r].pc = "loop"
  /\ run[r].idx <= Len(run[r].querySnapshot)
  /\ run' = [run EXCEPT ![r] = Staged(run[r], config.batchSize)]
  /\ UNCHANGED <<live, archive, config, otherActed>>

MutFlushedReportsEarly(rec) ==
  IF Remaining(rec.operations)
    THEN IF Staging(rec.isDryRun)
           THEN Awaiting(Logged(rec, [msg |-> "completed", n |-> 0]), "lastArchiveCommit")
           ELSE Completed(Logged(rec, [msg |-> "last", n |-> rec.operations]))
    ELSE Completed(rec)

\* After the loop: the remaining operations, then the success report.
Flushed(rec) ==
  IF Remaining(rec.operations)
    THEN IF Staging(rec.isDryRun)
           THEN Awaiting(rec, "lastArchiveCommit")
           ELSE Completed(Logged(rec, [msg |-> "last", n |-> rec.operations]))
    ELSE Completed(rec)

LoopEnd(r) ==
  /\ run[r].pc = "loop"
  /\ run[r].idx > Len(run[r].querySnapshot)
  /\ run' = [run EXCEPT ![r] = Flushed(run[r])]
  /\ UNCHANGED <<live, archive, config, otherActed>>

\* The awaited commit settles: it leaves the commits in flight and enters the
\* run's record of settled commits.
Committed(rec, sink, ops, ok) ==
  [rec EXCEPT !.commits = Append(@, [sink |-> sink, ops |-> ops, ok |-> ok]),
              !.inFlight = IF @ = <<>> THEN @ ELSE Tail(@)]

ArchiveIds(rec) == [k \in DOMAIN rec.archiveBatch |-> rec.archiveBatch[k].id]

\* await archiveBatch.commit() resolves; the code goes on to await batch.commit().
ArchiveCommitOk(r) ==
  /\ run[r].pc \in {"archiveCommit", "lastArchiveCommit"}
  /\ archive' = ApplySets(archive, run[r].archiveBatch)
  /\ run' = [run EXCEPT ![r] =
               Awaiting(Committed(run[r], "archive", ArchiveIds(run[r]), TRUE),
                        IF run[r].pc = "archiveCommit"
                          THEN "liveCommit" ELSE "lastLiveCommit")]
  /\ UNCHANGED <<live, config, otherActed>>

MutArchiveCommitErrorGoesOn(r) ==
  /\ run[r].pc \in {"archiveCommit", "lastArchiveCommit"}
  /\ run' = [run EXCEPT ![r] =
               Awaiting(Committed(run[r], "archive", ArchiveIds(run[r]), FALSE),
                        IF run[r].pc = "archiveCommit"
                          THEN "liveCommit" ELSE "lastLiveCommit")]
  /\ UNCHANGED <<live, archive, config, otherActed>>

MutArchiveCommitErrorHalfApplied(r) ==
  /\ run[r].pc \in {"archiveCommit", "lastArchiveCommit"}
  /\ archive' = ApplySets(archive, <<Head(run[r].archiveBatch)>>)
  /\ run' = [run EXCEPT ![r] =
               Caught(Committed(run[r], "archive", ArchiveIds(run[r]), FALSE))]
  /\ UNCHANGED <<live, config, otherActed>>

\* await archiveBatch.commit() rejects: the throw leaves the try block.
ArchiveCommitError(r) ==
  /\ run[r].pc \in {"archiveCommit", "lastArchiveCommit"}
  /\ run' = [run EXCEPT ![r] =
               Caught(Committed(run[r], "archive", ArchiveIds(run[r]), FALSE))]
  /\ UNCHANGED <<live, archive, config, otherActed>>

\* await batch.commit() resolves: the log line, then the reset and the next
\* iteration (full batch) or the success report (last batch).
LiveCommitOk(r) ==
  /\ run[r].pc \in {"liveCommit", "lastLiveCommit"}
  /\ live' = ApplyDeletes(live, run[r].batch)
  /\ run' = [run EXCEPT ![r] =
               LET rec == Committed(run[r], "live", run[r].batch, TRUE)
               IN  IF run[r].pc = "liveCommit"
                     THEN [ResetBatches(Logged(rec, [msg |-> "batch", n |-> rec.operations]))
                             EXCEPT !.pc = "loop"]
                     ELSE Completed(Logged(rec, [msg |-> "last", n |-> rec.operations]))]
  /\ UNCHANGED <<archive, config, otherActed>>

MutLiveCommitErrorGoesOn(r) ==
  /\ run[r].pc \in {"liveCommit", "lastLiveCommit"}
  /\ run' = [run EXCEPT ![r] =
               LET rec == Committed(run[r], "live", run[r].batch, FALSE)
               IN  IF run[r].pc = "liveCommit"
                     THEN [ResetBatches(rec) EXCEPT !.pc = "loop"]
                     ELSE Completed(rec)]
  /\ UNCHANGED <<live, archive, config, otherActed>>

\* await batch.commit() rejects.
LiveCommitError(r) ==
  /\ run[r].pc \in {"liveCommit", "lastLiveCommit"}
  /\ run' = [run EXCEPT ![r] = Caught(Committed(run[r], "live", run[r].batch, FALSE))]
  /\ UNCHANGED <<live, archive, config, otherActed>>

\* What the event loop does for a started run: it resumes the run when the
\* promise it awaits settles, or runs its next synchronous stretch.
Resume(r) ==
  \/ TestFetchFound(r)
  \/ TestFetchEmpty(r)
  \/ TestFetchError(r)
  \/ QueryFound(r)
  \/ QueryEmpty(r)
  \/ QueryError(r)
  \/ StageDoc(r)
  \/ LoopEnd(r)
  \/ ArchiveCommitOk(r)
  \/ ArchiveCommitError(r)
  \/ LiveCommitOk(r)
  \/ LiveCommitError(r)

Step(r) ==
  \/ Main(r)
  \/ Archive(r)
  \/ Resume(r)

Next == \E r \in Runs : Step(r)

\* Runs invoked one after the other, nobody else writing.
Spec == Init /\ [][Next]_vars

\* The backend answers every request, so every started run is resumed.
LiveSpec == Spec /\ \A r \in Runs : WF_vars(Resume(r))

\* ------------------------------------------------------- concurrent runs
\* A second process starts the script while the first is still running; both
\* runs are live runs.
ConcurrentMain(r) ==
  /\ run[r].pc = "idle"
  /\ config.entry = "main"
  /\ run' = [run EXCEPT ![r] =
               [Logged(Started(r, FALSE), [msg |-> "testing", n |-> 0])
                  EXCEPT !.pc = "probe"]]
  /\ UNCHANGED <<live, archive, config, otherActed>>

ConcurrentArchive(r) ==
  /\ run[r].pc = "idle"
  /\ config.entry = "archive"
  /\ run' = [run EXCEPT ![r] = CallArchive(Started(r, FALSE))]
  /\ UNCHANGED <<live, archive, config, otherActed>>

NextConcurrent ==
  \E r \in Runs :
    \/ ConcurrentMain(r)
    \/ ConcurrentArchive(r)
    \/ Resume(r)

\* Two live runs on the same organization, invoked at any time.
SpecConcurrent == Init /\ [][NextConcurrent]_vars

\* batchSize is a JavaScript number the caller passes: 0 stands for the values
\* that no count of operations ever equals (zero, negative, fractional, NaN).
AnyBatchSizes == BatchSizes \cup {0}

InitAnyBatch ==
  /\ live \in [Ids -> {FieldMap(ORGANIZATION_ID, 1), FieldMap(OtherOrganization, 1)}]
  /\ archive \in {<<>>, [i \in Ids |-> FieldMap(live[i].organization_id, 0)]}
  /\ config \in {[entry |-> "main", batchSize |-> MainBatchSize]}
         \cup {[entry |-> "archive", batchSize |-> b] : b \in AnyBatchSizes}
  /\ run = [r \in Runs |-> IdleRun]
  /\ otherActed = FALSE

\* Spec, with every batchSize a caller of archiveContactsDocuments can pass.
SpecAnyBatch == InitAnyBatch /\ [][Next]_vars

\* ------------------------------------------------- another client's write
InProgress(r) == run[r].pc \notin {"idle", "done"}

\* A client's write of document i: a delete, or a set of the whole document.
Written(col, i, doc, isDelete) ==
  IF isDelete
    THEN [j \in DOMAIN col \ {i} |-> col[j]]
    ELSE [j \in DOMAIN col \cup {i} |-> IF j = i THEN doc ELSE col[j]]

\* liveUntouched follows the write: it is the live collection as it would be
\* had the runs in progress done nothing.
OthersWrote(i, doc, isDelete) ==
  /\ ~otherActed
  /\ \E r \in Runs : InProgress(r)
  /\ live' = Written(live, i, doc, isDelete)
  /\ run' = [r \in Runs |->
               IF InProgress(r)
                 THEN [run[r] EXCEPT
                         !.liveUntouched = Written(@, i, doc, isDelete),
                         !.otherWrite =
                            [kind |-> IF isDelete THEN "delete"
                                      ELSE IF i \in DOMAIN live THEN "update"
                                      ELSE "create",
                             id |-> i,
                             fetched |-> run[r].fullFetch = "ok"]]
                 ELSE run[r]]
  /\ otherActed' = TRUE
  /\ UNCHANGED <<archive, config>>

OtherCreate ==
  \E i \in Ids \ DOMAIN live : OthersWrote(i, FieldMap(ORGANIZATION_ID, 2), FALSE)

OtherUpdate ==
  \E i \in DOMAIN live :
    /\ live[i].rev # 2
    /\ OthersWrote(i, [live[i] EXCEPT !.rev = 2], FALSE)

OtherDelete ==
  \E i \in DOMAIN live : OthersWrote(i, live[i], TRUE)

NextEnv ==
  \/ Step(1)
  \/ OtherCreate
  \/ OtherUpdate
  \/ OtherDelete

\* Init, or Init with one of the documents not in either collection yet.
InitEnv ==
  /\ \E f \in [Ids -> {FieldMap(ORGANIZATION_ID, 1), FieldMap(OtherOrganization, 1)}] :
       \E gone \in {{}} \cup {{i} : i \in Ids} :
         /\ live = [i \in Ids \ gone |-> f[i]]
         /\ archive \in {<<>>, [i \in Ids \ gone |-> FieldMap(f[i].organization_id, 0)]}
  /\ config \in {[entry |-> "main", batchSize |-> MainBatchSize]}
         \cup {[entry |-> "archive", batchSize |-> b] : b \in BatchSizes}
  /\ run = [r \in Runs |-> IdleRun]
  /\ otherActed = FALSE

\* One run, and one write to the live collection by another client during it.
SpecEnv == InitEnv /\ [][NextEnv]_vars

\* ------------------------------------------------------- claim vocabulary
SnapIds(rec) == [k \in DOMAIN rec.querySnapshot |-> rec.querySnapshot[k].id]

Done(rec) == rec.pc = "done"

\* The run has been invoked and no later run has.
Current(r) == run[r].pc # "idle" /\ \A q \in Runs : q > r => run[q].pc = "idle"

AllOk(rec) == \A k \in DOMAIN rec.commits : rec.commits[k].ok

\* The full fetch answered and no commit failed.
NoFailure(rec) == rec.fullFetch = "ok" /\ AllOk(rec)

\* Neither the probe, the full fetch nor a commit failed.
NoErrorLogged(rec) ==
  ~\E k \in DOMAIN rec.log : rec.log[k].msg \in {"error", "test fetch error"}

SuccessReported(rec) == \E k \in DOMAIN rec.log : rec.log[k].msg = "completed"

IsSink(c, sink) == c.sink = sink

ArchiveCommits(rec) == SelectSeq(rec.commits, LAMBDA c : IsSink(c, "archive"))

LiveCommits(rec) == SelectSeq(rec.commits, LAMBDA c : IsSink(c, "live"))

IsBatchReport(e) == e.msg \in {"batch", "last"}

\* The per-batch counts the run logged, in order.
Reports(rec) == SelectSeq(rec.log, IsBatchReport)

IsWould(e) == e.msg = "would archive and delete"

WouldLog(rec) == SelectSeq(rec.log, IsWould)

RECURSIVE Concat(_)
Concat(batches) ==
  IF batches = <<>> THEN <<>> ELSE Head(batches).ops \o Concat(Tail(batches))

Ceil(n, b) == (n + b - 1) \div b

\* The sizes ceil(N/B) batches of N records have: B, ..., B, then N mod B or B.
Partition(n, b) ==
  [k \in 1..Ceil(n, b) |->
     IF k < Ceil(n, b) THEN b ELSE IF n % b = 0 THEN b ELSE n % b]

\* ------------------------------------------------------------------ C1
\* C1: when a non-dry-run archival in which no query and no commit failed has
\* finished (nobody else writing), every record of the query result is in the
\* archive at its id with its field map and is no longer in the live collection.
C1_ArchivedAndDeleted ==
  \A r \in Runs :
    (Done(run[r]) /\ ~run[r].isDryRun /\ NoFailure(run[r])) =>
      \A k \in DOMAIN run[r].querySnapshot :
        LET doc == run[r].querySnapshot[k]
        IN  /\ doc.id \in DOMAIN archive
            /\ archive[doc.id] = doc.data
            /\ doc.id \notin DOMAIN live

\* batchSize 2 and five matching records: batches of 2, 2 and 1.
C1_Witness ==
  /\ Done(run[1]) /\ ~run[1].isDryRun /\ NoFailure(run[1])
  /\ config.batchSize = 2
  /\ Len(run[1].querySnapshot) = 5
  /\ Len(run[1].commits) = 6
  /\ DOMAIN live = {}

\* ------------------------------------------------------------------ C2
\* C2: in a dry run nothing is ever staged or committed and, while the run is
\* the latest one, both collections are as they were when it started; the ids
\* logged as "would archive and delete" are the records iterated so far, each
\* once, and all matched records once the run reports completion.
C2_DryRunTouchesNothing ==
  \A r \in Runs :
    (run[r].pc # "idle" /\ run[r].isDryRun) =>
      /\ run[r].batch = <<>>
      /\ run[r].archiveBatch = <<>>
      /\ run[r].commits = <<>>
      /\ Current(r) => (live = run[r].liveUntouched /\ archive = run[r].archiveUntouched)
      /\ \A i \in Ids :
           Cardinality({k \in DOMAIN WouldLog(run[r]) : WouldLog(run[r])[k].n = i}) <= 1
      /\ \A k \in DOMAIN WouldLog(run[r]) :
           WouldLog(run[r])[k].n = SnapIds(run[r])[k]
      /\ Len(WouldLog(run[r])) = run[r].idx - 1
      /\ (Done(run[r]) /\ run[r].fullFetch = "ok") =>
           Len(WouldLog(run[r])) = Len(run[r].querySnapshot)

C2_Witness ==
  /\ Done(run[1]) /\ run[1].isDryRun
  /\ config.batchSize = 2
  /\ Len(WouldLog(run[1])) = 5
  /\ Len(Reports(run[1])) = 3

\* ------------------------------------------------------------------ C3
\* C3 as stated: once a run has ended, a failed archive-write commit of a batch
\* has been followed by an attempt of the delete commit of that batch.
C3_DeleteAttemptedAfterFailedArchive ==
  \A r \in Runs :
    Done(run[r]) =>
      \A k \in DOMAIN run[r].commits :
        (run[r].commits[k].sink = "archive" /\ ~run[r].commits[k].ok) =>
          \E j \in DOMAIN run[r].commits :
            /\ j > k
            /\ run[r].commits[j].sink = "live"
            /\ run[r].commits[j].ops = run[r].commits[k].ops

\* C3 amended: a failed archive-write commit is the last commit the run
\* attempts: the delete commit of that batch is never attempted.
C3_NoDeleteAfterFailedArchive ==
  \A r \in Runs :
    \A k \in DOMAIN run[r].commits :
      (run[r].commits[k].sink = "archive" /\ ~run[r].commits[k].ok) =>
        /\ k = Len(run[r].commits)
        /\ ~\E j \in DOMAIN run[r].commits :
              run[r].commits[j].sink = "live"
              /\ run[r].commits[j].ops = run[r].commits[k].ops

C3_Witness ==
  /\ Done(run[1])
  /\ Len(run[1].commits) = 3
  /\ run[1].commits[3].sink = "archive"
  /\ ~run[1].commits[3].ok
  /\ Len(run[1].commits[3].ops) = 2

\* ------------------------------------------------------------------ C4
\* C4: a failure-free run over N >= 1 matched records with batchSize B >= 1
\* reports ceil(N/B) batches of sizes B, ..., B and then N mod B (B when B
\* divides N); a live run commits batches of exactly these sizes to each sink.
C4_BatchCount ==
  \A r \in Runs :
    (Done(run[r]) /\ NoFailure(run[r]) /\ Len(run[r].querySnapshot) >= 1
       /\ config.batchSize >= 1) =>
      LET sizes == Partition(Len(run[r].querySnapshot), config.batchSize)
      IN  /\ [k \in DOMAIN Reports(run[r]) |-> Reports(run[r])[k].n] = sizes
          /\ ~run[r].isDryRun =>
               /\ [k \in DOMAIN ArchiveCommits(run[r]) |->
                     Len(ArchiveCommits(run[r])[k].ops)] = sizes
               /\ [k \in DOMAIN LiveCommits(run[r]) |->
                     Len(LiveCommits(run[r])[k].ops)] = sizes

C4_Witness ==
  /\ Done(run[1]) /\ NoFailure(run[1]) /\ ~run[1].isDryRun
  /\ config.batchSize = 2
  /\ Len(run[1].querySnapshot) = 4
  /\ Len(ArchiveCommits(run[1])) = 2

\* ------------------------------------------------------------------ C5
\* C5: in a failure-free live run the batches committed to each sink, put end
\* to end in commit order, are the query result in its order, so every
\* returned id is in exactly one batch and no other id is in any.
C5_BatchesPartitionQuery ==
  \A r \in Runs :
    (Done(run[r]) /\ NoFailure(run[r]) /\ ~run[r].isDryRun) =>
      /\ Concat(ArchiveCommits(run[r])) = SnapIds(run[r])
      /\ Concat(LiveCommits(run[r])) = SnapIds(run[r])
      /\ \A i \in Ids :
           Cardinality({k \in DOMAIN ArchiveCommits(run[r]) :
                          \E j \in DOMAIN ArchiveCommits(run[r])[k].ops :
                            ArchiveCommits(run[r])[k].ops[j] = i})
             = IF \E k \in DOMAIN SnapIds(run[r]) : SnapIds(run[r])[k] = i THEN 1 ELSE 0

C5_Witness ==
  /\ Done(run[1]) /\ NoFailure(run[1]) /\ ~run[1].isDryRun
  /\ config.batchSize = 2
  /\ Len(ArchiveCommits(run[1])) = 3
  /\ Len(Concat(LiveCommits(run[1]))) = 5

\* ------------------------------------------------------------------ C6
\* C6: once a commit has failed the run is over: the failed commit is the last
\* one attempted (no retry, no later batch committed) and nothing beyond the
\* failed batch has been staged.
C6_FailureEndsRun ==
  \A r \in Runs :
    \A k \in DOMAIN run[r].commits :
      ~run[r].commits[k].ok =>
        /\ Done(run[r])
        /\ k = Len(run[r].commits)
        /\ ~SuccessReported(run[r])
        /\ run[r].batch = Concat(<<run[r].commits[k]>>)
        /\ SubSeq(SnapIds(run[r]), 1, run[r].idx - 1) = Concat(ArchiveCommits(run[r]))

C6_Witness ==
  /\ Done(run[1])
  /\ Len(run[1].commits) = 2
  /\ run[1].commits[2].sink = "live"
  /\ ~run[1].commits[2].ok
  /\ run[1].idx <= Len(run[1].querySnapshot)

\* ------------------------------------------------------------------ C7
\* C7: no error of the full fetch or of a commit escapes
\* archiveContactsDocuments: a run that has ended has returned to its caller
\* normally, and whatever fails, every started run does end (from some point on
\* no run is in progress).
C7_ErrorsCaughtAndRunEnds ==
  /\ [](\A r \in Runs : /\ run[r].exit # "unhandled"
                        /\ Done(run[r]) => run[r].exit = "returned")
  /\ <>[](\A r \in Runs : run[r].pc \in {"idle", "done"})

C7_Witness ==
  /\ Done(run[1]) /\ run[1].exit = "returned"
  /\ run[1].fullFetch = "ok"
  /\ Len(run[1].commits) = 4
  /\ ~AllOk(run[1])
  /\ Done(run[2]) /\ run[2].fullFetch = "error" /\ run[2].exit = "returned"

\* ------------------------------------------------------------------ C8
\* C8: a full fetch, a staged operation or a commit happens only in a run whose
\* probe returned true (when the run goes through main); a run whose probe
\* returned false has ended without any of them and left both collections as
\* they were.
C8_ProbeGates ==
  \A r \in Runs :
    (config.entry = "main" /\ run[r].pc # "idle") =>
      /\ (run[r].fullFetch # "none" \/ run[r].commits # <<>>
            \/ run[r].batch # <<>> \/ run[r].archiveBatch # <<>>)
           => run[r].hasDocuments = "true"
      /\ run[r].hasDocuments = "false" =>
           /\ Done(run[r]) /\ run[r].exit = "returned"
           /\ Current(r) =>
                (live = run[r].liveUntouched /\ archive = run[r].archiveUntouched)
      /\ run[r].hasDocuments = "unset" => run[r].pc = "probe"

C8_Witness ==
  /\ config.entry = "main"
  /\ run[1].hasDocuments = "false"
  /\ Last(run[1].log).msg = "exiting"
  /\ \E k \in DOMAIN run[1].log : run[1].log[k].msg = "test fetch error"
  /\ ~Empty(Query(live, ORGANIZATION_ID))

\* ------------------------------------------------------------------ C9
\* C9: when the full fetch returns no record (also after a probe that found
\* some), the run ends there with a normal return: nothing staged, nothing
\* committed, both collections as the run found them (as others left them).
C9_NoMatchIsNoOp ==
  \A r \in Runs :
    (run[r].fullFetch = "ok" /\ Empty(run[r].querySnapshot)) =>
      /\ Done(run[r]) /\ run[r].exit = "returned"
      /\ Last(run[r].log).msg = "no match"
      /\ run[r].batch = <<>> /\ run[r].archiveBatch = <<>> /\ run[r].operations = 0
      /\ run[r].commits = <<>>
      /\ Current(r) =>
           (live = run[r].liveUntouched /\ archive = run[r].archiveUntouched)

C9_Witness ==
  /\ run[1].hasDocuments = "true"
  /\ run[1].fullFetch = "ok"
  /\ Empty(run[1].querySnapshot)
  /\ Done(run[1])
  /\ otherActed

\* ------------------------------------------------------------------ C10
\* C10: after a failure-free live run and then a second live run without
\* failures on the same organization, the second run found no match and
\* committed nothing, and the archive is what the first run made of it: the
\* first run's records, one document per id, beside what it held before.
C10_SecondRunIsNoOp ==
  (/\ Done(run[1]) /\ ~run[1].isDryRun /\ NoErrorLogged(run[1])
   /\ Done(run[2]) /\ ~run[2].isDryRun /\ NoErrorLogged(run[2])) =>
     /\ Empty(run[2].querySnapshot)
     /\ \/ Last(run[2].log).msg = "no match"
        \/ Last(run[2].log).msg = "exiting"
     /\ run[2].commits = <<>> /\ run[2].batch = <<>> /\ run[2].archiveBatch = <<>>
     /\ DOMAIN archive = DOMAIN run[1].archiveUntouched \cup
                           {SnapIds(run[1])[k] : k \in DOMAIN SnapIds(run[1])}
     /\ \A k \in DOMAIN run[1].querySnapshot :
          archive[run[1].querySnapshot[k].id] = run[1].querySnapshot[k].data
     /\ \A i \in DOMAIN run[1].archiveUntouched :
          (~\E k \in DOMAIN SnapIds(run[1]) : SnapIds(run[1])[k] = i) =>
            archive[i] = run[1].archiveUntouched[i]
     /\ Empty(Query(live, ORGANIZATION_ID))

C10_Witness ==
  /\ Done(run[1]) /\ ~run[1].isDryRun /\ NoFailure(run[1])
  /\ Len(run[1].querySnapshot) = 5 /\ config.batchSize = 2
  /\ Done(run[2]) /\ ~run[2].isDryRun
  /\ run[2].fullFetch = "ok"
  /\ Last(run[2].log).msg = "no match"
  /\ Cardinality(DOMAIN archive) = 5

\* ------------------------------------------------------------------ C11
\* C11: in a live run, whatever commits fail, a delete commit is only ever
\* attempted right after the successful archive commit of the same batch, and
\* every matched record that is no longer in the live collection is in the
\* archive with the field map the query returned.
C11_NoDeleteWithoutArchive ==
  \A r \in Runs :
    ~run[r].isDryRun =>
      /\ \A j \in DOMAIN run[r].commits :
           run[r].commits[j].sink = "live" =>
             /\ j > 1
             /\ run[r].commits[j - 1].sink = "archive"
             /\ run[r].commits[j - 1].ok
             /\ run[r].commits[j - 1].ops = run[r].commits[j].ops
      /\ \A k \in DOMAIN run[r].querySnapshot :
           LET doc == run[r].querySnapshot[k]
           IN  doc.id \notin DOMAIN live =>
                 (doc.id \in DOMAIN archive /\ archive[doc.id] = doc.data)

C11_Witness ==
  /\ ~run[1].isDryRun /\ Done(run[1])
  /\ Len(run[1].commits) = 3
  /\ ~run[1].commits[3].ok
  /\ run[1].archiveUntouched = <<>>
  /\ \E k \in DOMAIN run[1].querySnapshot : run[1].querySnapshot[k].id \notin DOMAIN live
  /\ \E k \in DOMAIN run[1].querySnapshot :
       run[1].querySnapshot[k].id \notin DOMAIN archive

\* ------------------------------------------------------------------ C12
\* C12: batches go one after the other: the commits settle in the order
\* archive, delete, archive, delete, ..., each delete commit for the ids of the
\* archive commit before it; nothing is staged while a commit is in flight; at
\* most one commit is in flight over both sinks, with at least one and at most
\* batchSize operations.
C12_OneCommitAtATime ==
  /\ Len(Concat([r \in Runs |-> [ops |-> run[r].inFlight]])) <= 1
  /\ \A r \in Runs :
       /\ run[r].pc = "loop" => run[r].inFlight = <<>>
       /\ run[r].pc \in {"archiveCommit", "lastArchiveCommit", "liveCommit", "lastLiveCommit"}
            => Len(run[r].inFlight) = 1
       /\ \A k \in DOMAIN run[r].inFlight :
            /\ run[r].inFlight[k].ops = run[r].batch
            /\ Len(run[r].inFlight[k].ops) \in 1..config.batchSize
            /\ run[r].idx - 1 = Len(Concat(ArchiveCommits(run[r])))
                                 + (IF run[r].inFlight[k].sink = "archive"
                                      THEN Len(run[r].batch) ELSE 0)
       /\ \A j \in DOMAIN run[r].commits :
            /\ run[r].commits[j].sink = (IF j % 2 = 1 THEN "archive" ELSE "live")
            /\ j % 2 = 0 => /\ run[r].commits[j - 1].ok
                            /\ run[r].commits[j].ops = run[r].commits[j - 1].ops
            /\ j < Len(run[r].commits) => run[r].commits[j].ok

C12_Witness ==
  /\ run[1].pc = "archiveCommit"
  /\ Len(run[1].commits) = 2
  /\ Len(run[1].inFlight) = 1
  /\ Len(run[1].inFlight[1].ops) = 2
  /\ config.batchSize = 2
  /\ run[1].idx = 5

\* ------------------------------------------------------------------ C13
\* The two staged sets of a live run hold the same ids, those of the current
\* batch: the records iterated since the last reset, with their snapshot data.
StagedIsCurrentBatch(rec) ==
  /\ ArchiveIds(rec) = rec.batch
  /\ Len(rec.batch) = rec.operations
  /\ rec.archiveBatch = SubSeq(rec.querySnapshot, rec.idx - rec.operations, rec.idx - 1)

\* No id is handed to the same sink's commit twice.
NeverRecommitted(rec) ==
  \A j, k \in DOMAIN rec.commits :
    (j < k /\ rec.commits[j].sink = rec.commits[k].sink) =>
      \A a \in DOMAIN rec.commits[j].ops : \A b \in DOMAIN rec.commits[k].ops :
        rec.commits[j].ops[a] # rec.commits[k].ops[b]

\* C13 as stated: for every batchSize the configuration can carry, the staged
\* sets are exactly the current batch, every commit carries n operations with
\* 1 <= n <= batchSize, and no staged set is committed again.
C13_BatchWithinBatchSize ==
  \A r \in Runs :
    ~run[r].isDryRun =>
      /\ StagedIsCurrentBatch(run[r])
      /\ NeverRecommitted(run[r])
      /\ \A k \in DOMAIN run[r].commits :
           /\ 1 <= Len(run[r].commits[k].ops)
           /\ Len(run[r].commits[k].ops) <= config.batchSize

\* C13 amended: the staged sets are exactly the current batch, every commit
\* carries at least one operation, no staged set is committed again, and for a
\* positive integer batchSize every commit carries at most batchSize operations.
C13_BatchWithinPositiveBatchSize ==
  \A r \in Runs :
    ~run[r].isDryRun =>
      /\ StagedIsCurrentBatch(run[r])
      /\ NeverRecommitted(run[r])
      /\ \A k \in DOMAIN run[r].commits :
           /\ 1 <= Len(run[r].commits[k].ops)
           /\ config.batchSize >= 1 => Len(run[r].commits[k].ops) <= config.batchSize

C13_Witness ==
  /\ ~run[1].isDryRun
  /\ config.batchSize = 2
  /\ Len(run[1].commits) = 5
  /\ Len(run[1].commits[5].ops) = 1
  /\ Len(run[1].commits[4].ops) = 2
  /\ run[1].batch = run[1].commits[5].ops

\* ------------------------------------------------------------------ C14
\* Document i is the same, or missing, in both collections' states.
SameAt(col, other, i) ==
  /\ i \in DOMAIN col <=> i \in DOMAIN other
  /\ i \in DOMAIN col => col[i] = other[i]

\* C14: when a live run has ended on a failed commit (and no later run has
\* started), nothing is rolled back: the records of the batches before the
\* failed one are in the archive and not in the live collection; the records
\* after it are in the live collection and the archive is as it was at their
\* ids; the records of the failed batch are all in the live collection and
\* either all untouched in the archive (archive commit failed) or all in the
\* archive (delete commit failed).
C14_PartialStateAfterFailure ==
  \A r \in Runs :
    (Current(r) /\ ~run[r].isDryRun /\ run[r].commits # <<>>
       /\ ~Last(run[r].commits).ok) =>
      LET failed == Last(run[r].commits)
          snap == run[r].querySnapshot
          first == run[r].idx - Len(failed.ops)
      IN  /\ Done(run[r])
          /\ failed.ops = SubSeq(SnapIds(run[r]), first, run[r].idx - 1)
          /\ \A k \in 1..(first - 1) :
               /\ snap[k].id \notin DOMAIN live
               /\ snap[k].id \in DOMAIN archive
               /\ archive[snap[k].id] = snap[k].data
          /\ \A k \in run[r].idx..Len(snap) :
               /\ snap[k].id \in DOMAIN live
               /\ live[snap[k].id] = snap[k].data
               /\ SameAt(archive, run[r].archiveUntouched, snap[k].id)
          /\ \A k \in first..(run[r].idx - 1) :
               /\ snap[k].id \in DOMAIN live
               /\ live[snap[k].id] = snap[k].data
               /\ IF failed.sink = "archive"
                    THEN SameAt(archive, run[r].archiveUntouched, snap[k].id)
                    ELSE snap[k].id \in DOMAIN archive
                         /\ archive[snap[k].id] = snap[k].data

C14_Witness ==
  /\ Current(1) /\ ~run[1].isDryRun /\ Done(run[1])
  /\ config.batchSize = 2
  /\ Len(run[1].querySnapshot) = 5
  /\ Len(run[1].commits) = 4
  /\ ~run[1].commits[4].ok
  /\ run[1].archiveUntouched = <<>>
  /\ Cardinality(DOMAIN archive) = 4
  /\ Cardinality(DOMAIN live) = 3

\* ------------------------------------------------------------------ C15
\* The ids of the records of organization ORGANIZATION_ID in a collection.
Matching(col) == {i \in DOMAIN col : col[i].organization_id = ORGANIZATION_ID}

\* C15: when a live run ended on a failed commit and the next live run went
\* through without any failure, the collections are what one failure-free run
\* would have left: every record that matched before the first run is in the
\* archive with its field map and not in the live collection, and every other
\* document of either collection is as it was.
C15_RerunAfterFailure ==
  (/\ Done(run[1]) /\ ~run[1].isDryRun /\ ~AllOk(run[1])
   /\ Done(run[2]) /\ ~run[2].isDryRun /\ NoErrorLogged(run[2])) =>
     \A i \in Ids :
       IF i \in Matching(run[1].liveUntouched)
         THEN /\ i \notin DOMAIN live
              /\ i \in DOMAIN archive
              /\ archive[i] = run[1].liveUntouched[i]
         ELSE /\ SameAt(live, run[1].liveUntouched, i)
              /\ SameAt(archive, run[1].archiveUntouched, i)

C15_Witness ==
  /\ Done(run[1]) /\ ~run[1].isDryRun
  /\ Len(run[1].commits) = 4 /\ ~run[1].commits[4].ok
  /\ config.batchSize = 2
  /\ Len(run[1].querySnapshot) = 5
  /\ Done(run[2]) /\ ~run[2].isDryRun /\ NoErrorLogged(run[2])
  /\ Len(run[2].querySnapshot) = 3
  /\ Len(run[2].commits) = 4

\* ------------------------------------------------------------------ C16
InSnapshot(rec, i) == \E k \in DOMAIN rec.querySnapshot : rec.querySnapshot[k].id = i

SnapData(rec, i) ==
  rec.querySnapshot[CHOOSE k \in DOMAIN rec.querySnapshot : rec.querySnapshot[k].id = i].data

\* C16: what a live run archives and deletes is fixed by the result of its full
\* fetch.  Its staged and committed operations are on records of that result,
\* with the field maps of that result; a document another client creates after
\* the fetch at an id outside the result stays in the live collection and does
\* not reach the archive; a record of the result is archived as fetched and
\* deleted although another client changed or deleted it after the fetch.
C16_SnapshotFixesTheWork ==
  \A r \in Runs :
    (~run[r].isDryRun /\ run[r].fullFetch = "ok") =>
      /\ StagedIsCurrentBatch(run[r])
      /\ \A j \in DOMAIN run[r].commits :
           \A a \in DOMAIN run[r].commits[j].ops :
             LET i == run[r].commits[j].ops[a]
             IN  /\ InSnapshot(run[r], i)
                 /\ (run[r].commits[j].sink = "archive" /\ run[r].commits[j].ok) =>
                      (i \in DOMAIN archive /\ archive[i] = SnapData(run[r], i))
                 /\ (run[r].commits[j].sink = "live" /\ run[r].commits[j].ok) =>
                      \/ i \notin DOMAIN live
                      \/ run[r].otherWrite.kind = "create" /\ run[r].otherWrite.id = i
      /\ \A i \in Ids :
           ~InSnapshot(run[r], i) =>
             /\ SameAt(live, run[r].liveUntouched, i)
             /\ SameAt(archive, run[r].archiveUntouched, i)
      /\ (Done(run[r]) /\ AllOk(run[r])) =>
           /\ Concat(ArchiveCommits(run[r])) = SnapIds(run[r])
           /\ Concat(LiveCommits(run[r])) = SnapIds(run[r])

\* Another client changed a fetched record before it was staged.
C16_Witness ==
  /\ ~run[1].isDryRun /\ Done(run[1]) /\ NoFailure(run[1])
  /\ run[1].otherWrite.kind = "update"
  /\ run[1].otherWrite.fetched
  /\ InSnapshot(run[1], run[1].otherWrite.id)
  /\ run[1].liveUntouched[run[1].otherWrite.id].rev = 2
  /\ archive[run[1].otherWrite.id].rev = 1
  /\ run[1].otherWrite.id \notin DOMAIN live

\* Another client created a matching record after the fetch; the run is over.
C16_CreatedAfterFetch ==
  /\ ~run[1].isDryRun /\ Done(run[1]) /\ NoFailure(run[1])
  /\ run[1].otherWrite.kind = "create"
  /\ run[1].otherWrite.fetched
  /\ ~InSnapshot(run[1], run[1].otherWrite.id)
  /\ run[1].otherWrite.id \in DOMAIN live
  /\ run[1].otherWrite.id \notin DOMAIN archive

\* ------------------------------------------------------------------ C17
\* Record i, with the field map it had when run r started, is in the live
\* collection or in the archive.
Kept(r, i) ==
  \/ i \in DOMAIN live /\ live[i] = run[r].liveUntouched[i]
  \/ i \in DOMAIN archive /\ archive[i] = run[r].liveUntouched[i]

\* C17: with two live runs on the same organization interleaved in any way
\* (nobody else writing), every record that matched when a run started is, in
\* every state and whatever fails, in the live collection or in the archive
\* with its field map; and when both runs have ended without a failure every
\* such record is in the archive and none is in the live collection.
C17_ConcurrentRunsLoseNothing ==
  /\ \A r \in Runs :
       run[r].pc # "idle" =>
         \A i \in Matching(run[r].liveUntouched) : Kept(r, i)
  /\ (\A r \in Runs : Done(run[r]) /\ NoErrorLogged(run[r])) =>
       /\ Matching(live) = {}
       /\ \A r \in Runs :
            \A i \in Matching(run[r].liveUntouched) :
              /\ i \notin DOMAIN live
              /\ i \in DOMAIN archive
              /\ archive[i] = run[r].liveUntouched[i]

\* Both runs fetched record 1 and both committed its delete.
C17_Witness ==
  /\ \A r \in Runs :
       /\ Done(run[r]) /\ NoFailure(run[r])
       /\ Len(run[r].querySnapshot) >= 2
       /\ \E j \in DOMAIN run[r].commits :
            /\ run[r].commits[j].sink = "live"
            /\ \E a \in DOMAIN run[r].commits[j].ops : run[r].commits[j].ops[a] = 1
  /\ config.batchSize = 2
  /\ Len(run[1].querySnapshot) = 3

\* ------------------------------------------------------------------ C18
\* C18: every record of the query result has organization_id equal to the
\* run's organizationId; everything the run stages or commits is on ids of the
\* query result; and while the run is the latest one, the documents of both
\* collections at ids outside the query result (those of other organizations
\* among them) are as they were when the run started.
C18_OnlyTheOrganization ==
  \A r \in Runs :
    run[r].pc # "idle" =>
      /\ \A k \in DOMAIN run[r].querySnapshot :
           /\ run[r].querySnapshot[k].data.organization_id = ORGANIZATION_ID
           /\ run[r].querySnapshot[k].data = run[r].liveUntouched[run[r].querySnapshot[k].id]
      /\ \A a \in DOMAIN run[r].batch : InSnapshot(run[r], run[r].batch[a])
      /\ \A a \in DOMAIN run[r].archiveBatch : InSnapshot(run[r], run[r].archiveBatch[a].id)
      /\ \A j \in DOMAIN run[r].commits :
           \A a \in DOMAIN run[r].commits[j].ops :
             InSnapshot(run[r], run[r].commits[j].ops[a])
      /\ Current(r) =>
           \A i \in Ids :
             (~InSnapshot(run[r], i)
                \/ run[r].liveUntouched[i].organization_id # ORGANIZATION_ID) =>
               /\ SameAt(live, run[r].liveUntouched, i)
               /\ SameAt(archive, run[r].archiveUntouched, i)

C18_Witness ==
  /\ Current(1) /\ ~run[1].isDryRun /\ Done(run[1]) /\ NoFailure(run[1])
  /\ Len(run[1].querySnapshot) = 3
  /\ Cardinality(DOMAIN live) = 2
  /\ \A i \in DOMAIN live : live[i].organization_id = OtherOrganization
  /\ DOMAIN archive = Ids
  /\ \A i \in DOMAIN live : archive[i] = FieldMap(OtherOrganization, 0)
  /\ \E i \in Ids : archive[i] = FieldMap(ORGANIZATION_ID, 1)

\* ------------------------------------------------------------------ C19
WouldIds(rec) == [k \in DOMAIN WouldLog(rec) |-> WouldLog(rec)[k].n]

\* C19: the success report is the run's last log line and is emitted once, only
\* after the full fetch answered with at least one record and every batch, the
\* final partial one included, has settled both of its commits successfully (in
\* a dry run: after every record was logged and every batch reported); a run in
\* which a query or a commit failed never has it, nor has a run that matched
\* no record.
C19_SuccessReportIsLast ==
  \A r \in Runs :
    LET rec == run[r]
    IN  /\ SuccessReported(rec) =>
             /\ Done(rec) /\ rec.exit = "returned"
             /\ rec.fullFetch = "ok" /\ AllOk(rec) /\ NoErrorLogged(rec)
             /\ ~Empty(rec.querySnapshot)
             /\ rec.idx = Len(rec.querySnapshot) + 1
             /\ rec.inFlight = <<>>
             /\ Last(rec.log).msg = "completed"
             /\ Cardinality({k \in DOMAIN rec.log : rec.log[k].msg = "completed"}) = 1
             /\ IsBatchReport(rec.log[Len(rec.log) - 1])
             /\ IF rec.isDryRun
                  THEN rec.commits = <<>> /\ WouldIds(rec) = SnapIds(rec)
                  ELSE /\ Concat(ArchiveCommits(rec)) = SnapIds(rec)
                       /\ Concat(LiveCommits(rec)) = SnapIds(rec)
                       /\ Len(ArchiveCommits(rec)) = Len(LiveCommits(rec))
                       /\ Len(Reports(rec)) = Len(LiveCommits(rec))
        /\ (~AllOk(rec) \/ ~NoErrorLogged(rec) \/ rec.fullFetch = "error"
              \/ rec.hasDocuments = "false") => ~SuccessReported(rec)
        /\ (rec.fullFetch = "ok" /\ Empty(rec.querySnapshot)) => ~SuccessReported(rec)

\* A dry run and then a live run of three records in batches of two, both
\* reporting success.
C19_Witness ==
  /\ config.batchSize = 2
  /\ run[1].isDryRun /\ SuccessReported(run[1]) /\ Len(run[1].querySnapshot) = 3
  /\ ~run[2].isDryRun /\ SuccessReported(run[2]) /\ Len(run[2].querySnapshot) = 3
  /\ Len(run[2].commits) = 4

\* ------------------------------------------------------------------ C20
\* The batches a dry run reports: the ids of its "would archive and delete"
\* lines, cut at each batch report, with the count the report gives.
RECURSIVE DryBatches(_, _)
DryBatches(log, cur) ==
  IF log = <<>> THEN <<>>
  ELSE IF IsWould(Head(log)) THEN DryBatches(Tail(log), Append(cur, Head(log).n))
  ELSE IF IsBatchReport(Head(log))
    THEN <<[ops |-> cur, n |-> Head(log).n, msg |-> Head(log).msg]>>
           \o DryBatches(Tail(log), <<>>)
  ELSE DryBatches(Tail(log), cur)

\* The batches a live run committed to a sink, with the counts it reported.
LiveBatches(rec, sink) ==
  LET cs == SelectSeq(rec.commits, LAMBDA c : IsSink(c, sink))
  IN  [k \in DOMAIN cs |->
         [ops |-> cs[k].ops, n |-> Reports(rec)[k].n, msg |-> Reports(rec)[k].msg]]

\* C20: a completed dry run and a live run without failure over the same query
\* result and batchSize: the batches the dry run reports (ids, boundaries,
\* counts) are the batches the live run commits to the archive and deletes from
\* the live collection, and the ids the dry run logs are the ids the live run
\* archives and deletes, in the same order.
C20_DryRunIsFaithful ==
  \A d, l \in Runs :
    (/\ run[d].isDryRun /\ SuccessReported(run[d])
     /\ ~run[l].isDryRun /\ Done(run[l]) /\ NoFailure(run[l])
     /\ run[d].querySnapshot = run[l].querySnapshot) =>
      /\ DryBatches(run[d].log, <<>>) = LiveBatches(run[l], "archive")
      /\ DryBatches(run[d].log, <<>>) = LiveBatches(run[l], "live")
      /\ \A k \in DOMAIN DryBatches(run[d].log, <<>>) :
           DryBatches(run[d].log, <<>>)[k].n = Len(DryBatches(run[d].log, <<>>)[k].ops)
      /\ WouldIds(run[d]) = Concat(ArchiveCommits(run[l]))
      /\ WouldIds(run[d]) = Concat(LiveCommits(run[l]))

\* Five records in batches of two: the dry run reports 2, 2, 1 and the live run
\* after it commits 2, 2, 1.
C20_Witness ==
  /\ config.batchSize = 2
  /\ run[1].isDryRun /\ SuccessReported(run[1])
  /\ ~run[2].isDryRun /\ Done(run[2]) /\ NoFailure(run[2])
  /\ run[1].querySnapshot = run[2].querySnapshot
  /\ Len(run[1].querySnapshot) = 5
  /\ Len(DryBatches(run[1].log, <<>>)) = 3
  /\ Len(LiveCommits(run[2])) = 3

====
